---- MODULE Spec2Model ----
(***************************************************************************)
(* Report marketplace backend: payment-request workflow, subscription      *)
(* quota accounting, report access control and the daily expiry sweep.     *)
(*                                                                         *)
(* Under Spec and SpecDate each action is one HTTP handler (or the cron    *)
(* job), taken as it runs when no other handler interleaves with it.       *)
(* Under SpecRace, SpecAccess and SpecCrash handlers advance from one      *)
(* await to the next, two invocations at a time; under SpecSweep the cron  *)
(* job does.  A save sends what the handler changed on the document it     *)
(* loaded: pushes onto the stored arrays and the values it assigned.       *)
(* What a handler answers is a function of the documents it loaded: the    *)
(* ...Answer operators.  A handler that answers without saving leaves      *)
(* every variable as it is.                                                *)
(* Dates are calendar days written yyyymmdd, so that they compare as the   *)
(* Date objects do; the time of day is left out.  Under Spec the server    *)
(* clock starts on the first of a month and moves on a month at a time.    *)
(* Left out are the fields no handler reads back (user.points, the         *)
(* purchaseDate stamps, isAdminGrant, screenshotData) and the outbound     *)
(* mail.  For a caller without a token the requireAuth middleware answers  *)
(* 401 before the handler runs.                                            *)
(***************************************************************************)
EXTENDS Integers, Sequences, FiniteSets, TLC

\* ------------------------------------------------------------------ bounds
MaxTime == 2
MaxRequests == 2
MaxPurchased == 2
MaxHistory == 1

\* ---------------------------------------------------------------- catalog
Users == {"u1", "u2"}       \* the User collection
Clients == {"u1"}           \* the users whose requests are explored
Anon == "anon"              \* a caller without a valid token
Callers == Clients \cup {Anon}

Reports == {"rp1", "rb1", "rf1"}
PaidReports == {r \in Reports : r # "rf1"}

\* Report.reportType (enum premium | bluechip | free)
ReportType(r) ==
    CASE r = "rp1" -> "premium"
      [] r = "rb1" -> "bluechip"
      [] r = "rf1" -> "free"
      [] r = "rp2" -> "premium"

\* req.body.subscriptionPlan: the plan snapshots a client submits
Plans ==
    { [planId |-> "mixed", duration |-> 1, reportsIncluded |-> 2,
       premiumReports |-> 1, bluechipReports |-> 1],
      [planId |-> "bluechip", duration |-> 1, reportsIncluded |-> 1,
       premiumReports |-> 0, bluechipReports |-> 1] }

NoPlan ==
    [planId |-> "", duration |-> 0, reportsIncluded |-> 0,
     premiumReports |-> 0, bluechipReports |-> 0]

NoReport == ""

\* req.body.amount: what the client says was paid for the target
Amount(paymentType) == IF paymentType = "report" THEN 500 ELSE 2000

\* req.body.status / req.body.adminComment of a review: the route stores the
\* status it is sent, any value of the schema's enum
Statuses == {"pending", "approved", "rejected"}
Comments == {"ok"}

\* ------------------------------------------------------------------ dates
\* a calendar day, written so that dates compare as integers
Date(y, m, d) == y * 10000 + m * 100 + d
YearOf(t) == t \div 10000
MonthOf(t) == (t \div 100) % 100
DayOf(t) == t % 100

IsLeapYear(y) == (y % 4 = 0 /\ y % 100 # 0) \/ y % 400 = 0

DaysInMonth(y, m) ==
    IF m = 2 THEN (IF IsLeapYear(y) THEN 29 ELSE 28)
    ELSE IF m \in {4, 6, 9, 11} THEN 30 ELSE 31

\* the clock value the server starts with
Epoch == Date(2024, 1, 1)

\* a Date field that was never set, and a reviewedBy that was never set
NoDate == 0
NoReviewer == ""

\* ------------------------------------------------------------------ state
VARIABLES
    now,        \* server clock (new Date()), as yyyymmdd
    users,      \* User collection: userId -> document
    requests,   \* PaymentRequest collection, in insertion order; _id = index
    calls,      \* handler invocations between two awaits: what each has loaded
    sweep       \* the run of the expiry cron job: where it stands, what it found

vars == <<now, users, requests, calls, sweep>>

\* the handler invocations that can be in flight together
Procs == {"a1", "a2"}

\* userSchema defaults for a fresh document
NewUser ==
    [purchasedReports |-> << >>,
     currentSubscription |-> << >>,      \* << >> is null, <<s>> is the subdocument s
     subscriptionHistory |-> << >>]

\* an answer: its code ("OK" for a 2xx answer, "SERVED" when the 2xx answer
\* carries the PDF) and, where it grants access to a report, the accessType
Response(code, accessType) == [code |-> code, accessType |-> accessType]

\* no document loaded
NoDoc ==
    [user |-> "", paymentType |-> "", report |-> NoReport, subscriptionPlan |-> NoPlan,
     amount |-> 0, status |-> "", adminComment |-> "",
     reviewedAt |-> NoDate, reviewedBy |-> NoReviewer]

\* an invocation: the route (op), where it stands (pc), its parameters, the
\* PaymentRequest it holds (loaded or about to be inserted), the user document
\* it populated, and what it answered
Call(op, pc, id, decision, comment, doc, usr, result) ==
    [op |-> op, pc |-> pc, id |-> id, decision |-> decision, comment |-> comment,
     doc |-> doc, usr |-> usr, result |-> result]

NoCall == Call("idle", "", 0, "", "", NoDoc, NewUser, "")

\* the cron callback is not running and has not run
NoSweep ==
    [pc |-> "idle", queue |-> << >>, loaded |-> [u \in Users |-> NewUser],
     found |-> {}, saved |-> {}, failed |-> {}]

Init ==
    /\ now = Epoch
    /\ users = [u \in Users |-> NewUser]
    /\ requests = << >>
    /\ calls = [p \in Procs |-> NoCall]
    /\ sweep = NoSweep

\* ------------------------------------------------------ User model methods
HasSub(usr) == Len(usr.currentSubscription) = 1
Cur(usr) == usr.currentSubscription[1]

\* variant: trusts the isActive flag alone
hasActiveSubscriptionByFlag(usr, t) ==
    HasSub(usr) /\ Cur(usr).isActive

hasActiveSubscription(usr, t) ==
    IF ~HasSub(usr) THEN FALSE
    ELSE Cur(usr).isActive /\ Cur(usr).expiryDate > t

Max0(n) == IF n > 0 THEN n ELSE 0

getAvailableReports(usr, t) ==
    IF ~hasActiveSubscription(usr, t)
    THEN [premium |-> 0, bluechip |-> 0, total |-> 0]   \* total is not set here; no caller reads it
    ELSE [premium |-> Max0(Cur(usr).premiumReports - Cur(usr).premiumReportsUsed),
          bluechip |-> Max0(Cur(usr).bluechipReports - Cur(usr).bluechipReportsUsed),
          total |-> Max0(Cur(usr).reportsIncluded - Cur(usr).reportsUsed)]

\* variant: charges the bucket and forgets the overall counter
useReportBucketOnly(usr, reportType, t) ==
    IF ~hasActiveSubscription(usr, t) THEN [ok |-> FALSE, user |-> usr]
    ELSE IF reportType = "bluechip" /\ getAvailableReports(usr, t).bluechip > 0
    THEN [ok |-> TRUE,
          user |-> [usr EXCEPT !.currentSubscription[1].bluechipReportsUsed = @ + 1]]
    ELSE IF reportType = "premium" /\ getAvailableReports(usr, t).premium > 0
    THEN [ok |-> TRUE,
          user |-> [usr EXCEPT !.currentSubscription[1].premiumReportsUsed = @ + 1]]
    ELSE [ok |-> FALSE, user |-> usr]

\* variant: charges the bucket without looking at what is left in it
useReportNoBalanceCheck(usr, reportType, t) ==
    IF ~hasActiveSubscription(usr, t) THEN [ok |-> FALSE, user |-> usr]
    ELSE IF reportType = "bluechip"
    THEN [ok |-> TRUE,
          user |-> [usr EXCEPT !.currentSubscription[1].bluechipReportsUsed = @ + 1,
                               !.currentSubscription[1].reportsUsed = @ + 1]]
    ELSE IF reportType = "premium"
    THEN [ok |-> TRUE,
          user |-> [usr EXCEPT !.currentSubscription[1].premiumReportsUsed = @ + 1,
                               !.currentSubscription[1].reportsUsed = @ + 1]]
    ELSE [ok |-> FALSE, user |-> usr]

\* useReport returns its boolean and leaves the mutated document
useReport(usr, reportType, t) ==
    IF ~hasActiveSubscription(usr, t) THEN [ok |-> FALSE, user |-> usr]
    ELSE IF reportType = "bluechip" /\ getAvailableReports(usr, t).bluechip > 0
    THEN [ok |-> TRUE,
          user |-> [usr EXCEPT !.currentSubscription[1].bluechipReportsUsed = @ + 1,
                               !.currentSubscription[1].reportsUsed = @ + 1]]
    ELSE IF reportType = "premium" /\ getAvailableReports(usr, t).premium > 0
    THEN [ok |-> TRUE,
          user |-> [usr EXCEPT !.currentSubscription[1].premiumReportsUsed = @ + 1,
                               !.currentSubscription[1].reportsUsed = @ + 1]]
    ELSE [ok |-> FALSE, user |-> usr]

\* purchasedReports.some(pr => pr.reportId.toString() === reportId)
HasPurchased(usr, r) ==
    \E i \in 1..Len(usr.purchasedReports) : usr.purchasedReports[i].reportId = r

\* purchasedReports.some(pr => ... === id && pr.accessType === 'subscription')
AlreadyAccessed(usr, r) ==
    \E i \in 1..Len(usr.purchasedReports) :
        /\ usr.purchasedReports[i].reportId = r
        /\ usr.purchasedReports[i].accessType = "subscription"

PurchaseEntry(r, price, accessType) ==
    [reportId |-> r, price |-> price, accessType |-> accessType]

\* variant: puts the new entry in front of the stored ones
PushPurchaseFront(usr, entry) ==
    [usr EXCEPT !.purchasedReports = << entry >> \o @]

PushPurchase(usr, entry) ==
    [usr EXCEPT !.purchasedReports = Append(@, entry)]

WithinBounds(us) ==
    \A u \in Users :
        /\ Len(us[u].purchasedReports) <= MaxPurchased
        /\ Len(us[u].subscriptionHistory) <= MaxHistory

\* ------------------------------------------------------- reportRoutes.js
\* variant: decides on the subscription alone, without looking at purchasedReports
checkReportAccessSubscriptionOnly(usr, r, reportType, t) ==
    IF hasActiveSubscription(usr, t)
    THEN IF reportType = "bluechip" /\ getAvailableReports(usr, t).bluechip > 0
         THEN [hasAccess |-> TRUE, accessType |-> "subscription",
               reportType |-> "bluechip", reason |-> ""]
         ELSE IF reportType = "premium" /\ getAvailableReports(usr, t).premium > 0
         THEN [hasAccess |-> TRUE, accessType |-> "subscription",
               reportType |-> "premium", reason |-> ""]
         ELSE [hasAccess |-> FALSE, accessType |-> "", reportType |-> "",
               reason |-> "No reports left in subscription"]
    ELSE [hasAccess |-> FALSE, accessType |-> "", reportType |-> "",
          reason |-> "Subscription expired or not active"]

\* checkReportAccess(userId, reportId, reportType): the access decision
checkReportAccess(usr, r, reportType, t) ==
    IF HasPurchased(usr, r)
    THEN [hasAccess |-> TRUE, accessType |-> "individual", reportType |-> "", reason |-> ""]
    ELSE IF hasActiveSubscription(usr, t)
    THEN IF reportType = "bluechip" /\ getAvailableReports(usr, t).bluechip > 0
         THEN [hasAccess |-> TRUE, accessType |-> "subscription",
               reportType |-> "bluechip", reason |-> ""]
         ELSE IF reportType = "premium" /\ getAvailableReports(usr, t).premium > 0
         THEN [hasAccess |-> TRUE, accessType |-> "subscription",
               reportType |-> "premium", reason |-> ""]
         ELSE [hasAccess |-> FALSE, accessType |-> "", reportType |-> "",
               reason |-> "No reports left in subscription"]
    ELSE [hasAccess |-> FALSE, accessType |-> "", reportType |-> "",
          reason |-> "Subscription expired or not active"]

\* the block shared by GET /:id/pdf and GET /:id/download once access is granted:
\* "if accessing via subscription, deduct report count"
ConsumeOnServe(usr, r, access, t) ==
    IF access.accessType = "subscription" /\ ~AlreadyAccessed(usr, r)
    THEN IF useReport(usr, access.reportType, t).ok
         THEN [served |-> TRUE,
               user |-> PushPurchase(useReport(usr, access.reportType, t).user,
                                     PurchaseEntry(r, 0, "subscription"))]
         ELSE [served |-> FALSE, user |-> usr]
    ELSE [served |-> TRUE, user |-> usr]

\* GET /reports/:id  (report details): the userAccess object of the answer
DetailsAccess(c, r) ==
    IF ReportType(r) = "free"
    THEN [hasAccess |-> TRUE, accessType |-> "free", reportType |-> "", reason |-> ""]
    ELSE IF c = Anon
    THEN [hasAccess |-> FALSE, accessType |-> "", reportType |-> "", reason |-> ""]
    ELSE checkReportAccess(users[c], r, ReportType(r), now)

GetReport(c, r) ==
    /\ DetailsAccess(c, r).hasAccess \in BOOLEAN
    /\ UNCHANGED <<now, sweep, calls, users, requests>>

\* the paid-report part of GET /:id/pdf and the whole of GET /:id/download:
\* what it answers, and the user document it saves
ServePaidAnswer(c, r) ==
    LET a == checkReportAccess(users[c], r, ReportType(r), now) IN
    IF ~a.hasAccess THEN Response("ACCESS_DENIED", "")
    ELSE IF ~ConsumeOnServe(users[c], r, a, now).served THEN Response("NO_REPORTS_LEFT", "")
    ELSE Response("SERVED", a.accessType)

ServePaid(c, r) ==
    IF ServePaidAnswer(c, r).code = "SERVED"
    THEN /\ users' = [users EXCEPT ![c] =
                ConsumeOnServe(users[c], r,
                               checkReportAccess(users[c], r, ReportType(r), now), now).user]
         /\ WithinBounds(users')
    ELSE UNCHANGED users

\* GET /reports/:id/pdf
PdfAnswer(c, r) ==
    IF ReportType(r) = "free" THEN Response("SERVED", "free")
    ELSE IF c = Anon THEN Response("AUTH_REQUIRED", "")
    ELSE ServePaidAnswer(c, r)

GetPdf(c, r) ==
    /\ UNCHANGED <<now, sweep, calls, requests>>
    /\ IF ReportType(r) = "free" \/ c = Anon
       THEN UNCHANGED users
       ELSE ServePaid(c, r)

\* GET /reports/:id/download  (requireAuth)
DownloadAnswer(c, r) ==
    IF c = Anon THEN Response("AUTH_REQUIRED", "") ELSE ServePaidAnswer(c, r)

Download(c, r) ==
    /\ UNCHANGED <<now, sweep, calls, requests>>
    /\ IF c = Anon THEN UNCHANGED users ELSE ServePaid(c, r)

\* POST /reports/:id/use-subscription  (requireAuth)
UseSubscriptionAnswer(c, r) ==
    IF c = Anon THEN Response("AUTH_REQUIRED", "")
    ELSE IF ~hasActiveSubscription(users[c], now) THEN Response("NO_SUBSCRIPTION", "")
    ELSE IF AlreadyAccessed(users[c], r) THEN Response("ALREADY_ACCESSED", "")
    ELSE IF ~useReport(users[c], ReportType(r), now).ok THEN Response("NO_REPORTS_LEFT", "")
    ELSE Response("OK", "subscription")

UseSubscription(c, r) ==
    /\ UNCHANGED <<now, sweep, calls, requests>>
    /\ IF UseSubscriptionAnswer(c, r).code = "OK"
       THEN /\ users' = [users EXCEPT ![c] =
                            PushPurchase(useReport(users[c], ReportType(r), now).user,
                                         PurchaseEntry(r, 0, "subscription"))]
            /\ WithinBounds(users')
       ELSE UNCHANGED users

\* --------------------------------------------------------- userRoutes.js
\* GET /users/check-access/:reportId  (verifyToken): the accessInfo it answers
CheckAccessInfo(usr, r, t) ==
    IF HasPurchased(usr, r)
    THEN [hasAccess |-> TRUE, accessType |-> "individual",
          reason |-> "Purchased individually"]
    ELSE IF hasActiveSubscription(usr, t)
    THEN IF getAvailableReports(usr, t).total > 0
         THEN [hasAccess |-> TRUE, accessType |-> "subscription",
               reason |-> "Available via subscription"]
         ELSE [hasAccess |-> FALSE, accessType |-> "",
               reason |-> "No reports left in subscription"]
    ELSE [hasAccess |-> FALSE, accessType |-> "",
          reason |-> "No active subscription or individual purchase"]

CheckAccess(c, r) ==
    /\ CheckAccessInfo(users[c], r, now).hasAccess \in BOOLEAN
    /\ UNCHANGED <<now, sweep, calls, users, requests>>

\* -------------------------------------------------------- paymentRoutes.js
\* PaymentRequest.findOne({user, report, status: 'pending'})
PendingReportRequest(u, r) ==
    \E i \in 1..Len(requests) :
        /\ requests[i].user = u
        /\ requests[i].report = r
        /\ requests[i].status = "pending"

\* PaymentRequest.findOne({user, paymentType: 'subscription', status: 'pending'})
PendingSubscriptionRequest(u) ==
    \E i \in 1..Len(requests) :
        /\ requests[i].user = u
        /\ requests[i].paymentType = "subscription"
        /\ requests[i].status = "pending"

\* variant: the guards without the look into purchasedReports
SubmitAnswerNoOwnershipCheck(u, paymentType, r) ==
    IF paymentType = "report"
    THEN IF PendingReportRequest(u, r) THEN "DUPLICATE_REQUEST" ELSE "CREATED"
    ELSE IF hasActiveSubscription(users[u], now) THEN "ACTIVE_SUBSCRIPTION"
         ELSE IF PendingSubscriptionRequest(u) THEN "DUPLICATE_REQUEST"
         ELSE "CREATED"

\* variant: the guards without the pending-request lookups
SubmitAnswerNoPendingLookup(u, paymentType, r) ==
    IF paymentType = "report"
    THEN IF HasPurchased(users[u], r) THEN "ALREADY_PURCHASED" ELSE "CREATED"
    ELSE IF hasActiveSubscription(users[u], now) THEN "ACTIVE_SUBSCRIPTION" ELSE "CREATED"

\* the guards of POST /payment-requests and POST /admin/grant-access, in the
\* order the handlers test them: the code of the 400 answer, or "CREATED" (201)
SubmitAnswer(u, paymentType, r) ==
    IF paymentType = "report"
    THEN IF HasPurchased(users[u], r) THEN "ALREADY_PURCHASED"
         ELSE IF PendingReportRequest(u, r) THEN "DUPLICATE_REQUEST"
         ELSE "CREATED"
    ELSE IF hasActiveSubscription(users[u], now) THEN "ACTIVE_SUBSCRIPTION"
         ELSE IF PendingSubscriptionRequest(u) THEN "DUPLICATE_REQUEST"
         ELSE "CREATED"

\* new PaymentRequest({...}) with the schema defaults
NewPaymentRequest(u, paymentType, r, plan) ==
    [user |-> u, paymentType |-> paymentType, report |-> r, subscriptionPlan |-> plan,
     amount |-> Amount(paymentType),
     status |-> "pending", adminComment |-> "",
     reviewedAt |-> NoDate, reviewedBy |-> NoReviewer]

\* the body the two submission routes share
Submit(u, paymentType, r, plan) ==
    /\ UNCHANGED <<now, sweep, calls, users>>
    /\ IF SubmitAnswer(u, paymentType, r) = "CREATED"
       THEN /\ Len(requests) < MaxRequests
            /\ requests' = Append(requests, NewPaymentRequest(u, paymentType, r, plan))
       ELSE UNCHANGED requests

\* POST /payment-requests  (verifyToken)
CreatePaymentRequest(u, paymentType, r, plan) ==
    Submit(u, paymentType, r, plan)

\* expiryDate = new Date(now); expiryDate.setMonth(now.getMonth() + duration):
\* the month index is carried into the year, and a day of the month that the
\* target month does not have runs over into the month after it
AddMonths(t, n) ==
    LET k == (MonthOf(t) - 1) + n
        y == YearOf(t) + (k \div 12)
        m == (k % 12) + 1
        d == DayOf(t)
    IN  IF d <= DaysInMonth(y, m) THEN Date(y, m, d)
        ELSE IF m = 12 THEN Date(y + 1, 1, d - DaysInMonth(y, m))
        ELSE Date(y, m + 1, d - DaysInMonth(y, m))

NewSubscription(plan, price, t) ==
    [planId |-> plan.planId, price |-> price, duration |-> plan.duration,
     expiryDate |-> AddMonths(t, plan.duration), isActive |-> TRUE,
     reportsIncluded |-> plan.reportsIncluded, reportsUsed |-> 0,
     premiumReports |-> plan.premiumReports, bluechipReports |-> plan.bluechipReports,
     premiumReportsUsed |-> 0, bluechipReportsUsed |-> 0]

\* variant: installs the new subscription over the current one, archiving nothing
VerifyGrantNoArchive(usr, req, t) ==
    IF req.paymentType = "report"
    THEN PushPurchase(usr, PurchaseEntry(req.report, req.amount, "individual"))
    ELSE [usr EXCEPT
            !.currentSubscription = << NewSubscription(req.subscriptionPlan, req.amount, t) >>]

\* the "if approved, update user data" block of POST /payment-requests/:id/verify
VerifyGrant(usr, req, t) ==
    IF req.paymentType = "report"
    THEN PushPurchase(usr, PurchaseEntry(req.report, req.amount, "individual"))
    ELSE [usr EXCEPT
            !.subscriptionHistory = IF HasSub(usr) THEN Append(@, Cur(usr)) ELSE @,
            !.currentSubscription = << NewSubscription(req.subscriptionPlan, req.amount, t) >>]

\* POST /payment-requests/:id/verify answers 200 with the saved request
VerifyAnswer(id, status) == "OK"

VerifyPaymentRequest(id, status, adminComment) ==
    /\ UNCHANGED <<now, sweep, calls>>
    /\ requests' = [requests EXCEPT ![id].status = status,
                                    ![id].adminComment = adminComment,
                                    ![id].reviewedAt = now]
    /\ users' = IF status = "approved"
                THEN [users EXCEPT ![requests[id].user] =
                          VerifyGrant(users[requests[id].user], requests[id], now)]
                ELSE users
    /\ WithinBounds(users')

\* --------------------------------------------------------- adminRoutes.js
\* POST /admin/grant-access  (verifyAdmin)
GrantAccess(u, paymentType, r, plan) ==
    Submit(u, paymentType, r, plan)

\* now + n calendar months, the day of the month clamped to the last day of
\* the target month
AddCalendarMonths(t, n) ==
    LET k == (MonthOf(t) - 1) + n
        y == YearOf(t) + (k \div 12)
        m == (k % 12) + 1
    IN  Date(y, m, IF DayOf(t) <= DaysInMonth(y, m) THEN DayOf(t) ELSE DaysInMonth(y, m))

\* user.activateSubscription(plan): archive the current subscription, install
\* the new one with every *Used counter at 0
activateSubscription(usr, plan, amountPaid, t) ==
    [usr EXCEPT
        !.subscriptionHistory = IF HasSub(usr) THEN Append(@, Cur(usr)) ELSE @,
        !.currentSubscription =
            << [NewSubscription(plan, amountPaid, t) EXCEPT
                   !.expiryDate = AddCalendarMonths(t, plan.duration)] >>]

\* the grant of PATCH /admin/payment-requests/:id/approve; the second branch
\* tests paymentType === 'individual', a value the schema's enum does not have
ApproveGrant(usr, req, t) ==
    IF req.paymentType = "subscription"
    THEN activateSubscription(usr, req.subscriptionPlan, req.amount, t)
    ELSE IF req.paymentType = "individual"
    THEN PushPurchase(usr, PurchaseEntry(req.report, req.amount, "individual"))
    ELSE usr

\* PATCH /admin/payment-requests/:id/approve
ApproveAnswer(id) ==
    IF requests[id].status # "pending" THEN "ALREADY_PROCESSED" ELSE "OK"

ApprovePaymentRequest(id) ==
    /\ UNCHANGED <<now, sweep, calls>>
    /\ IF ApproveAnswer(id) = "OK"
       THEN /\ requests' = [requests EXCEPT ![id].status = "approved"]
            /\ users' = [users EXCEPT ![requests[id].user] =
                            ApproveGrant(users[requests[id].user], requests[id], now)]
            /\ WithinBounds(users')
       ELSE UNCHANGED <<users, requests>>

\* ------------------------------------------------- subscription expiry cron
\* User.find({'currentSubscription.isActive': true, 'currentSubscription.expiryDate': {$lt: now}})
ExpiredQuery(usr, t) ==
    HasSub(usr) /\ Cur(usr).isActive /\ Cur(usr).expiryDate < t

\* variant: clears the subscription without archiving it
DeactivateNoArchive(usr) ==
    [usr EXCEPT !.currentSubscription = << >>]

\* variant: archives the subscription and leaves it in place
DeactivateKeepCurrent(usr) ==
    [usr EXCEPT !.subscriptionHistory = Append(@, [Cur(usr) EXCEPT !.isActive = FALSE])]

\* the loop body: deactivate, archive, clear
Deactivate(usr) ==
    [usr EXCEPT
        !.subscriptionHistory = Append(@, [Cur(usr) EXCEPT !.isActive = FALSE]),
        !.currentSubscription = << >>]

\* the User collection after the deactivation loop has run over the query's result
Swept(us, t) ==
    [u \in Users |-> IF ExpiredQuery(us[u], t) THEN Deactivate(us[u]) ELSE us[u]]

\* one run of the cron callback (the warning pass only sends mail)
ExpirySweep ==
    /\ UNCHANGED <<now, sweep, calls, requests>>
    /\ users' = Swept(users, now)
    /\ WithinBounds(users')

\* the server clock moves on by a month
Tick ==
    /\ now < AddMonths(Epoch, MaxTime)
    /\ now' = AddMonths(now, 1)
    /\ UNCHANGED <<users, requests, calls, sweep>>

Next ==
    \/ \E u \in Clients, r \in PaidReports : CreatePaymentRequest(u, "report", r, NoPlan)
    \/ \E u \in Clients, p \in Plans : CreatePaymentRequest(u, "subscription", NoReport, p)
    \/ \E u \in Clients, r \in PaidReports : GrantAccess(u, "report", r, NoPlan)
    \/ \E u \in Clients, p \in Plans : GrantAccess(u, "subscription", NoReport, p)
    \/ \E id \in 1..Len(requests), st \in Statuses, c \in Comments :
            VerifyPaymentRequest(id, st, c)
    \/ \E id \in 1..Len(requests) : ApprovePaymentRequest(id)
    \/ \E c \in Callers, r \in Reports : GetReport(c, r)
    \/ \E c \in Callers, r \in Reports : GetPdf(c, r)
    \/ \E c \in Callers, r \in Reports : Download(c, r)
    \/ \E c \in Callers, r \in Reports : UseSubscription(c, r)
    \/ \E c \in Clients, r \in Reports : CheckAccess(c, r)
    \/ ExpirySweep
    \/ Tick

Spec == Init /\ [][Next]_vars

\* ======================================================================
\* Properties
\* ======================================================================
RequestIds == 1..Len(requests)
Purchases(u) == users[u].purchasedReports

\* number of purchasedReports entries of usr for report r
CountEntries(usr, r) ==
    Cardinality({i \in 1..Len(usr.purchasedReports) : usr.purchasedReports[i].reportId = r})

\* a review of request id through either entry point
Review(id) ==
    \/ \E st \in Statuses, c \in Comments : VerifyPaymentRequest(id, st, c)
    \/ ApprovePaymentRequest(id)

\* an approval of request id through either entry point
Approval(id) ==
    \/ \E c \in Comments : VerifyPaymentRequest(id, "approved", c)
    \/ ApprovePaymentRequest(id)

\* C1: reviewing an already approved or rejected request fails with
\* AlreadyProcessed and leaves the request and its user unchanged, through
\* POST /payment-requests/:id/verify and PATCH /admin/payment-requests/:id/approve,
\* for either decision.
C1_ReviewIsTerminal ==
    /\ [](\A id \in RequestIds :
            requests[id].status # "pending"
                => /\ ApproveAnswer(id) = "ALREADY_PROCESSED"
                   /\ \A st \in {"approved", "rejected"} :
                          VerifyAnswer(id, st) = "ALREADY_PROCESSED")
    /\ [][\A id \in RequestIds :
             (requests[id].status # "pending" /\ Review(id))
                 => UNCHANGED <<requests, users>>]_vars

\* C2: a request is created pending and its status changes at most once, from
\* pending to approved or from pending to rejected.
C2_StatusChangesOnce ==
    [][/\ \A id \in RequestIds :
              requests'[id].status # requests[id].status
                  => /\ requests[id].status = "pending"
                     /\ requests'[id].status \in {"approved", "rejected"}
       /\ \A id \in 1..Len(requests') :
              id > Len(requests) => requests'[id].status = "pending"]_vars

\* C3: approving a pending report request leaves, through every approval entry
\* point, an entry for its report with accessType individual and price = amount
\* in the owner's purchasedReports.
C3_ApprovalGrantsReport ==
    [][\A id \in RequestIds :
          (/\ requests[id].status = "pending"
           /\ requests[id].paymentType = "report"
           /\ Approval(id))
              => \E i \in 1..Len(users'[requests[id].user].purchasedReports) :
                    users'[requests[id].user].purchasedReports[i] =
                        PurchaseEntry(requests[id].report, requests[id].amount, "individual")]_vars

\* the report type's bucket has balance left in the current subscription
BucketLeft(usr, reportType, t) ==
    /\ hasActiveSubscription(usr, t)
    /\ \/ reportType = "premium" /\ Cur(usr).premiumReportsUsed < Cur(usr).premiumReports
       \/ reportType = "bluechip" /\ Cur(usr).bluechipReportsUsed < Cur(usr).bluechipReports

\* the access sequence checkAccess; consumeQuota as the serving routes run it
Access(u, r) == GetPdf(u, r) \/ Download(u, r)

\* C4: for a user with an active subscription and balance in the matching
\* bucket and a non-free report not yet owned, the first access is served and
\* charges the bucket (and reportsUsed) by exactly one and leaves exactly one
\* entry for the report; the access that follows is served with no state
\* change at all.
C4_IdempotentSubscriptionAccess ==
    /\ [](\A u \in Clients, r \in PaidReports :
            /\ (BucketLeft(users[u], ReportType(r), now) /\ ~HasPurchased(users[u], r))
                  => /\ PdfAnswer(u, r) = Response("SERVED", "subscription")
                     /\ DownloadAnswer(u, r) = Response("SERVED", "subscription")
            /\ AlreadyAccessed(users[u], r)
                  => /\ PdfAnswer(u, r).code = "SERVED"
                     /\ DownloadAnswer(u, r).code = "SERVED")
    /\ [][\A u \in Clients, r \in PaidReports :
             /\ (BucketLeft(users[u], ReportType(r), now) /\ ~HasPurchased(users[u], r)
                     /\ Access(u, r))
                   => /\ CountEntries(users'[u], r) = 1
                      /\ AlreadyAccessed(users'[u], r)
                      /\ Cur(users'[u]).reportsUsed = Cur(users[u]).reportsUsed + 1
                      /\ Cur(users'[u]).premiumReportsUsed = Cur(users[u]).premiumReportsUsed
                             + (IF ReportType(r) = "premium" THEN 1 ELSE 0)
                      /\ Cur(users'[u]).bluechipReportsUsed = Cur(users[u]).bluechipReportsUsed
                             + (IF ReportType(r) = "bluechip" THEN 1 ELSE 0)
             /\ (AlreadyAccessed(users[u], r) /\ Access(u, r)) => UNCHANGED users]_vars

\* reached: the state the second access runs in.  The first access has left
\* the one entry and the one charge, the bucket is now empty, and the report
\* is served again, as an owned report
C4_Witness ==
    \E r \in PaidReports :
        /\ AlreadyAccessed(users["u1"], r)
        /\ CountEntries(users["u1"], r) = 1
        /\ Len(Purchases("u1")) = 1
        /\ hasActiveSubscription(users["u1"], now)
        /\ Cur(users["u1"]).reportsUsed = 1
        /\ ~BucketLeft(users["u1"], ReportType(r), now)
        /\ PdfAnswer("u1", r) = Response("SERVED", "individual")

\* C5: consuming quota for a report the user already has an entry for, of any
\* accessType, charges nothing: pdf, download and use-subscription leave the
\* counters and purchasedReports as they are.
C5_NoChargeWhenOwned ==
    [][\A u \in Clients, r \in Reports :
          (HasPurchased(users[u], r) /\ (Access(u, r) \/ UseSubscription(u, r)))
              => UNCHANGED users]_vars

\* C6: purchasedReports holds at most one entry per reportId.
C6_UniquePurchases ==
    \A u \in Users : \A r \in Reports : CountEntries(users[u], r) <= 1

BucketExhausted(usr, reportType) ==
    \/ reportType = "premium" /\ Cur(usr).premiumReportsUsed = Cur(usr).premiumReports
    \/ reportType = "bluechip" /\ Cur(usr).bluechipReportsUsed = Cur(usr).bluechipReports

QuotaExhausted == "No reports left in subscription"

\* C8: with the bucket of a report's type used up, every access check for a
\* report of that type the user does not own denies with the quota-exhausted
\* reason, whatever the other bucket holds; GET /users/check-access included.
C8_ExhaustedBucketDenies ==
    \A u \in Clients, r \in PaidReports :
        (/\ hasActiveSubscription(users[u], now)
         /\ BucketExhausted(users[u], ReportType(r))
         /\ ~HasPurchased(users[u], r))
            => /\ ~checkReportAccess(users[u], r, ReportType(r), now).hasAccess
               /\ checkReportAccess(users[u], r, ReportType(r), now).reason = QuotaExhausted
               /\ ~DetailsAccess(u, r).hasAccess
               /\ ~CheckAccessInfo(users[u], r, now).hasAccess
               /\ CheckAccessInfo(users[u], r, now).reason = QuotaExhausted

\* isActive still true, expiryDate <= now: expired, not yet swept
ExpiredUnswept(usr, t) ==
    HasSub(usr) /\ Cur(usr).isActive /\ Cur(usr).expiryDate <= t

\* any of the routes that decide access to report r for user u
AnyAccessRoute(u, r) ==
    \/ GetReport(u, r)
    \/ GetPdf(u, r)
    \/ Download(u, r)
    \/ UseSubscription(u, r)
    \/ CheckAccess(u, r)

SubmitReport(u, r) ==
    CreatePaymentRequest(u, "report", r, NoPlan) \/ GrantAccess(u, "report", r, NoPlan)

SubmitSubscription(u, p) ==
    CreatePaymentRequest(u, "subscription", NoReport, p)
        \/ GrantAccess(u, "subscription", NoReport, p)

\* C10: a submission made while a pending request exists for the same
\* (user, report), or a subscription submission made while the user has a
\* pending subscription request, fails with DuplicateRequest and creates nothing.
C10_DuplicateRequestRejected ==
    /\ [](\A u \in Clients :
            /\ \A r \in PaidReports :
                  PendingReportRequest(u, r) => SubmitAnswer(u, "report", r) = "DUPLICATE_REQUEST"
            /\ PendingSubscriptionRequest(u)
                  => SubmitAnswer(u, "subscription", NoReport) = "DUPLICATE_REQUEST")
    /\ [][\A u \in Clients :
             /\ \A r \in PaidReports :
                   (PendingReportRequest(u, r) /\ SubmitReport(u, r)) => UNCHANGED requests
             /\ \A p \in Plans :
                   (PendingSubscriptionRequest(u) /\ SubmitSubscription(u, p))
                       => UNCHANGED requests]_vars

\* C10 as amended: such a submission creates nothing; it fails with
\* AlreadyPurchased when the report is already in purchasedReports, with
\* ActiveSubscriptionExists when the user has an active subscription, and with
\* DuplicateRequest otherwise.
C10_PendingBlocksSubmission ==
    /\ [](\A u \in Clients :
            /\ \A r \in PaidReports :
                  PendingReportRequest(u, r)
                      => SubmitAnswer(u, "report", r) =
                             IF HasPurchased(users[u], r)
                             THEN "ALREADY_PURCHASED" ELSE "DUPLICATE_REQUEST"
            /\ PendingSubscriptionRequest(u)
                  => SubmitAnswer(u, "subscription", NoReport) =
                         IF hasActiveSubscription(users[u], now)
                         THEN "ACTIVE_SUBSCRIPTION" ELSE "DUPLICATE_REQUEST")
    /\ [][\A u \in Clients :
             /\ \A r \in PaidReports :
                   (PendingReportRequest(u, r) /\ SubmitReport(u, r))
                       => UNCHANGED <<requests, users>>
             /\ \A p \in Plans :
                   (PendingSubscriptionRequest(u) /\ SubmitSubscription(u, p))
                       => UNCHANGED <<requests, users>>]_vars

\* reached: a request for a report is pending, untouched by any review, while
\* the user holds the report through a subscription; a further submission for
\* it creates nothing and is answered ALREADY_PURCHASED
C10_Witness ==
    \E r \in PaidReports, id \in RequestIds :
        /\ requests[id] = NewPaymentRequest("u1", "report", r, NoPlan)
        /\ PendingReportRequest("u1", r)
        /\ AlreadyAccessed(users["u1"], r)
        /\ CountEntries(users["u1"], r) = 1
        /\ SubmitAnswer("u1", "report", r) = "ALREADY_PURCHASED"

\* C11: a report submission for a report that is already in the user's
\* purchasedReports, with any accessType, fails with AlreadyPurchased and
\* creates no PaymentRequest, through POST /payment-requests and through
\* POST /admin/grant-access.
C11_AlreadyPurchasedRejected ==
    /\ [](\A u \in Clients, r \in PaidReports :
            HasPurchased(users[u], r) => SubmitAnswer(u, "report", r) = "ALREADY_PURCHASED")
    /\ [][\A u \in Clients, r \in PaidReports :
             (HasPurchased(users[u], r) /\ SubmitReport(u, r))
                 => UNCHANGED <<requests, users>>]_vars

\* reached: a report is held as an individual purchase, no request is pending
\* and there is room for a new one; a submission for it is answered
\* ALREADY_PURCHASED
C11_Witness ==
    /\ Len(requests) < MaxRequests
    /\ \A id \in RequestIds : requests[id].status # "pending"
    /\ \E r \in PaidReports :
          /\ HasPurchased(users["u1"], r) /\ ~AlreadyAccessed(users["u1"], r)
          /\ SubmitAnswer("u1", "report", r) = "ALREADY_PURCHASED"

\* an approval of request id that reaches the grant: the verify route with
\* status approved, the admin route on a pending request
GrantingApproval(id) ==
    \/ \E c \in Comments : VerifyPaymentRequest(id, "approved", c)
    \/ requests[id].status = "pending" /\ ApprovePaymentRequest(id)

\* C12: approving a subscription request while the user has a
\* currentSubscription A (active or expired) appends A, unchanged, as the last
\* element of subscriptionHistory and installs the requested plan as
\* currentSubscription with isActive = true and all Used counters at 0; a user
\* never holds more than one currentSubscription.
C12_ActivationArchives ==
    /\ [](\A u \in Users : Len(users[u].currentSubscription) <= 1)
    /\ [][\A id \in RequestIds :
             (/\ requests[id].paymentType = "subscription"
              /\ HasSub(users[requests[id].user])
              /\ GrantingApproval(id))
                 => /\ users'[requests[id].user].subscriptionHistory =
                           Append(users[requests[id].user].subscriptionHistory,
                                  Cur(users[requests[id].user]))
                    /\ HasSub(users'[requests[id].user])
                    /\ Cur(users'[requests[id].user]).planId =
                           requests[id].subscriptionPlan.planId
                    /\ Cur(users'[requests[id].user]).isActive
                    /\ Cur(users'[requests[id].user]).reportsUsed = 0
                    /\ Cur(users'[requests[id].user]).premiumReportsUsed = 0
                    /\ Cur(users'[requests[id].user]).bluechipReportsUsed = 0]_vars

\* reached: a subscription that was used and has expired, never swept, sits in
\* the history as it was, and a fresh one is current; both were approved
\* through the verify route
C12_Witness ==
    /\ Len(users["u1"].subscriptionHistory) = 1
    /\ users["u1"].subscriptionHistory[1].isActive
    /\ users["u1"].subscriptionHistory[1].reportsUsed > 0
    /\ users["u1"].subscriptionHistory[1].expiryDate <= now
    /\ hasActiveSubscription(users["u1"], now)
    /\ Cur(users["u1"]).reportsUsed = 0
    /\ \A id \in RequestIds : requests[id].status = "approved" /\ requests[id].adminComment = "ok"

\* C13: a report with reportType free is granted on every access path (report
\* details, PDF view, PDF download, use-subscription) to a caller without a
\* token and to every authenticated caller, whatever they hold, and no path
\* moves a quota counter or adds a purchasedReports entry for it.
C13_FreeReportOpen ==
    /\ [](\A c \in Callers, r \in Reports :
            ReportType(r) = "free"
                => /\ DetailsAccess(c, r).hasAccess
                   /\ PdfAnswer(c, r).code = "SERVED"
                   /\ DownloadAnswer(c, r).code = "SERVED"
                   /\ UseSubscriptionAnswer(c, r).code = "OK")
    /\ [][\A c \in Callers, r \in Reports :
             (ReportType(r) = "free" /\ AnyAccessRoute(c, r)) => UNCHANGED users]_vars

\* user u has an approved request of the given type for report r / plan planId
ApprovedReportRequest(u, r) ==
    \E id \in RequestIds :
        /\ requests[id].user = u
        /\ requests[id].paymentType = "report"
        /\ requests[id].report = r
        /\ requests[id].status = "approved"

ApprovedSubscriptionRequest(u, planId) ==
    \E id \in RequestIds :
        /\ requests[id].user = u
        /\ requests[id].paymentType = "subscription"
        /\ requests[id].subscriptionPlan.planId = planId
        /\ requests[id].status = "approved"

\* C14: entitlements come from approval only: every purchasedReports entry
\* with accessType individual has an approved report request of that user for
\* that report, every subscription record (current or archived) has an
\* approved subscription request of that user, and the two submission routes
\* create a pending request and leave the user as it is.
C14_EntitlementsFromApproval ==
    /\ [](\A u \in Users :
            /\ \A i \in 1..Len(users[u].purchasedReports) :
                  users[u].purchasedReports[i].accessType = "individual"
                      => ApprovedReportRequest(u, users[u].purchasedReports[i].reportId)
            /\ HasSub(users[u]) => ApprovedSubscriptionRequest(u, Cur(users[u]).planId)
            /\ \A i \in 1..Len(users[u].subscriptionHistory) :
                  ApprovedSubscriptionRequest(u, users[u].subscriptionHistory[i].planId))
    /\ [][\A u \in Clients :
             (\/ \E r \in PaidReports : SubmitReport(u, r)
              \/ \E p \in Plans : SubmitSubscription(u, p))
                 => /\ UNCHANGED users
                    /\ \A id \in 1..Len(requests') :
                          id > Len(requests) => requests'[id].status = "pending"]_vars

\* C15: a completed expiry sweep leaves every user whose currentSubscription
\* had isActive = true and expiryDate < now with that subscription (marked
\* inactive) appended to subscriptionHistory and no currentSubscription, and
\* every other user as it was.
C15_SweepDeactivatesExpired ==
    [][ExpirySweep
          => \A u \in Users :
                IF HasSub(users[u]) /\ Cur(users[u]).isActive /\ Cur(users[u]).expiryDate < now
                THEN /\ ~HasSub(users'[u])
                     /\ users'[u].subscriptionHistory =
                            Append(users[u].subscriptionHistory,
                                   [Cur(users[u]) EXCEPT !.isActive = FALSE])
                     /\ users'[u].purchasedReports = users[u].purchasedReports
                ELSE users'[u] = users[u]]_vars

\* reached: the sweep has archived a used subscription after its expiry date
C15_Witness ==
    /\ ~HasSub(users["u1"])
    /\ Len(users["u1"].subscriptionHistory) = 1
    /\ ~users["u1"].subscriptionHistory[1].isActive
    /\ users["u1"].subscriptionHistory[1].expiryDate < now
    /\ users["u1"].subscriptionHistory[1].reportsUsed > 0
    /\ Len(Purchases("u1")) = 1

\* C16: the expiry sweep is idempotent: a second run at the same clock value
\* finds no user to deactivate and leaves the User collection as the first
\* run left it.
C16_SweepIdempotent ==
    /\ [](Swept(Swept(users, now), now) = Swept(users, now))
    /\ [][ExpirySweep
            => /\ \A u \in Users : ~ExpiredQuery(users'[u], now')
               /\ Swept(users', now') = users']_vars

\* reached: a sweep has deactivated a subscription and a second one finds nothing
C16_Witness ==
    /\ \E u \in Users :
          /\ ~HasSub(users[u])
          /\ users[u].subscriptionHistory # << >>
          /\ ~users[u].subscriptionHistory[1].isActive
          /\ users[u].subscriptionHistory[1].expiryDate < now
    /\ \A u \in Users : ~ExpiredQuery(users[u], now)

\* the user has a currentSubscription that is past its expiry date or inactive
ExpiredSubscription(usr, t) ==
    HasSub(usr) /\ ~hasActiveSubscription(usr, t)

\* C17: every denied access check for a non-free report carries a reason, and
\* the reason tells the cases apart: a user with no currentSubscription and a
\* user with an expired one are given different reasons, and each of them a
\* reason other than that of an exhausted quota.
C17_DenialReasonsDistinguish ==
    /\ \A c \in Callers, r \in PaidReports :
          ~DetailsAccess(c, r).hasAccess => DetailsAccess(c, r).reason # ""
    /\ \A u, v \in Users, r \in PaidReports :
          LET a == checkReportAccess(users[u], r, ReportType(r), now)
              b == checkReportAccess(users[v], r, ReportType(r), now)
          IN  (/\ ~a.hasAccess /\ ~b.hasAccess
               /\ ~HasSub(users[u])
               /\ ExpiredSubscription(users[v], now))
                  => /\ a.reason # b.reason
                     /\ a.reason # "No reports left in subscription"
                     /\ b.reason # "No reports left in subscription"

\* ======================================================================
\* Approval dates: the approval of a subscription request on every day of
\* a year, for plans of several durations
\* ======================================================================
\* the days the server clock can show in the year of Epoch
Days ==
    {Date(YearOf(Epoch), m, d) : m \in 1..12, d \in 1..31} \cap
    {t \in Epoch..Date(YearOf(Epoch), 12, 31) :
        MonthOf(t) \in 1..12 /\ DayOf(t) \in 1..DaysInMonth(YearOf(t), MonthOf(t))}

\* req.body.subscriptionPlan.duration, in months
Durations == {1, 3, 12}

\* a plan as the client sends it, with the duration it chose
PlanOfDuration(n) ==
    [planId |-> "mixed", duration |-> n, reportsIncluded |-> 2,
     premiumReports |-> 1, bluechipReports |-> 1]

InitDate ==
    /\ now \in Days
    /\ users = [u \in Users |-> NewUser]
    /\ requests = << >>
    /\ calls = [p \in Procs |-> NoCall]
    /\ sweep = NoSweep

NextDate ==
    \/ \E u \in Clients, n \in Durations :
            CreatePaymentRequest(u, "subscription", NoReport, PlanOfDuration(n))
    \/ \E id \in 1..Len(requests), c \in Comments : VerifyPaymentRequest(id, "approved", c)
    \/ \E id \in 1..Len(requests) : ApprovePaymentRequest(id)

SpecDate == InitDate /\ [][NextDate]_vars

\* C18: approving a pending subscription request on day d with a duration of
\* N months gives currentSubscription.expiryDate = d plus N calendar months,
\* the day of the month clamped to the last day of the target month
\* (2024-01-15 and one month give 2024-02-15; a start on the 31st never
\* reaches the month after the target month).
C18_ExpiryIsClampedCalendarMonths ==
    [][\A id \in RequestIds :
          (/\ requests[id].paymentType = "subscription"
           /\ requests[id].status = "pending"
           /\ GrantingApproval(id))
              => /\ HasSub(users'[requests[id].user])
                 /\ Cur(users'[requests[id].user]).expiryDate =
                        AddCalendarMonths(now, requests[id].subscriptionPlan.duration)]_vars

\* ======================================================================
\* Interleavings: two invocations of the submission and review handlers,
\* each advancing from one await to the next
\* ======================================================================
Idle(p) == calls[p].op = "idle"

At(p, op, pc) == calls[p].op = op /\ calls[p].pc = pc

\* the routes that create a PaymentRequest
SubmitOps == {"submit", "grant-access"}

\* the report and the plan the racing submissions are about
RaceReports == {"rp1"}
RacePlans == {pl \in Plans : pl.planId = "mixed"}

\* the status values a reviewer sends
Decisions == {"approved", "rejected"}

\* POST /payment-requests and POST /admin/grant-access, up to the checks on the
\* user document: const user = await User.findById(...), then alreadyPurchased
\* or user.hasActiveSubscription()
BeginSubmit(p, op, u, paymentType, r, plan) ==
    /\ Idle(p)
    /\ UNCHANGED <<now, sweep, users, requests>>
    /\ LET doc == NewPaymentRequest(u, paymentType, r, plan) IN
       calls' = [calls EXCEPT ![p] =
           IF paymentType = "report" /\ HasPurchased(users[u], r)
           THEN Call(op, "done", 0, "", "", doc, users[u], "ALREADY_PURCHASED")
           ELSE IF paymentType = "subscription" /\ hasActiveSubscription(users[u], now)
           THEN Call(op, "done", 0, "", "", doc, users[u], "ACTIVE_SUBSCRIPTION")
           ELSE Call(op, "user", 0, "", "", doc, users[u], "")]

\* const pendingRequest = await PaymentRequest.findOne({..., status: 'pending'})
LookupPending(p) ==
    /\ calls[p].op \in SubmitOps
    /\ calls[p].pc = "user"
    /\ UNCHANGED <<now, sweep, users, requests>>
    /\ LET doc == calls[p].doc
           found == IF doc.paymentType = "report"
                    THEN PendingReportRequest(doc.user, doc.report)
                    ELSE PendingSubscriptionRequest(doc.user)
       IN  calls' = [calls EXCEPT ![p] =
               IF found THEN [@ EXCEPT !.pc = "done", !.result = "DUPLICATE_REQUEST"]
               ELSE [@ EXCEPT !.pc = "checked"]]

\* await paymentRequest.save() of the new document
InsertRequest(p) ==
    /\ calls[p].op \in SubmitOps
    /\ calls[p].pc = "checked"
    /\ Len(requests) < MaxRequests
    /\ requests' = Append(requests, calls[p].doc)
    /\ calls' = [calls EXCEPT ![p] = [@ EXCEPT !.pc = "done", !.result = "CREATED"]]
    /\ UNCHANGED <<now, sweep, users>>

\* what user.save() sends after the verify route's grant: the pushes onto the
\* stored arrays and the new currentSubscription, computed from the populated
\* document usr
VerifySave(db, usr, req, t) ==
    IF req.paymentType = "report"
    THEN PushPurchase(db, PurchaseEntry(req.report, req.amount, "individual"))
    ELSE [db EXCEPT
            !.subscriptionHistory = IF HasSub(usr) THEN Append(@, Cur(usr)) ELSE @,
            !.currentSubscription = VerifyGrant(usr, req, t).currentSubscription]

\* POST /payment-requests/:id/verify:
\* await PaymentRequest.findById(id).populate('user')
BeginVerify(p, id, status, adminComment) ==
    /\ Idle(p)
    /\ calls' = [calls EXCEPT ![p] =
           Call("verify", "loaded", id, status, adminComment,
                requests[id], users[requests[id].user], "")]
    /\ UNCHANGED <<now, sweep, users, requests>>

\* paymentRequest.status = status; ...; await paymentRequest.save()
SaveVerify(p) ==
    /\ At(p, "verify", "loaded")
    /\ requests' = [requests EXCEPT ![calls[p].id].status = calls[p].decision,
                                    ![calls[p].id].adminComment = calls[p].comment,
                                    ![calls[p].id].reviewedAt = now]
    /\ calls' = [calls EXCEPT ![p] =
           IF calls[p].decision = "approved" THEN [@ EXCEPT !.pc = "saved"]
           ELSE [@ EXCEPT !.pc = "done", !.result = "OK"]]
    /\ UNCHANGED <<now, sweep, users>>

\* the grant on the populated user and await user.save()
GrantVerify(p) ==
    /\ At(p, "verify", "saved")
    /\ users' = [users EXCEPT ![calls[p].doc.user] =
                    VerifySave(@, calls[p].usr, calls[p].doc, now)]
    /\ WithinBounds(users')
    /\ calls' = [calls EXCEPT ![p] = [@ EXCEPT !.pc = "done", !.result = "OK"]]
    /\ UNCHANGED <<now, sweep, requests>>

\* what user.save() sends after the approve route's grant
ApproveSave(db, usr, req, t) ==
    IF req.paymentType = "subscription"
    THEN [db EXCEPT
            !.subscriptionHistory = IF HasSub(usr) THEN Append(@, Cur(usr)) ELSE @,
            !.currentSubscription = ApproveGrant(usr, req, t).currentSubscription]
    ELSE db

\* PATCH /admin/payment-requests/:id/approve:
\* await PaymentRequest.findById(id)..., then the status !== 'pending' guard
BeginApprove(p, id) ==
    /\ Idle(p)
    /\ calls' = [calls EXCEPT ![p] =
           IF requests[id].status # "pending"
           THEN Call("approve", "done", id, "approved", "", requests[id], NewUser,
                     "ALREADY_PROCESSED")
           ELSE Call("approve", "guarded", id, "approved", "", requests[id], NewUser, "")]
    /\ UNCHANGED <<now, sweep, users, requests>>

\* const user = await User.findById(paymentRequest.user._id || paymentRequest.user)
LoadUserApprove(p) ==
    /\ At(p, "approve", "guarded")
    /\ calls' = [calls EXCEPT ![p] =
           [@ EXCEPT !.pc = "loaded", !.usr = users[calls[p].doc.user]]]
    /\ UNCHANGED <<now, sweep, users, requests>>

\* paymentRequest.status = 'approved'; await paymentRequest.save()
SaveApprove(p) ==
    /\ At(p, "approve", "loaded")
    /\ requests' = [requests EXCEPT ![calls[p].id].status = "approved"]
    /\ calls' = [calls EXCEPT ![p] = [@ EXCEPT !.pc = "saved"]]
    /\ UNCHANGED <<now, sweep, users>>

\* the grant and await user.save(), then the 200 answer
GrantApprove(p) ==
    /\ At(p, "approve", "saved")
    /\ users' = [users EXCEPT ![calls[p].doc.user] =
                    ApproveSave(@, calls[p].usr, calls[p].doc, now)]
    /\ WithinBounds(users')
    /\ calls' = [calls EXCEPT ![p] = [@ EXCEPT !.pc = "done", !.result = "OK"]]
    /\ UNCHANGED <<now, sweep, requests>>

\* the response has been sent; the invocation is over
Return(p) ==
    /\ calls[p].pc = "done"
    /\ calls' = [calls EXCEPT ![p] = NoCall]
    /\ UNCHANGED <<now, sweep, users, requests>>

NextRace ==
    \/ \E p \in Procs, op \in SubmitOps, u \in Clients, r \in RaceReports :
            BeginSubmit(p, op, u, "report", r, NoPlan)
    \/ \E p \in Procs, op \in SubmitOps, u \in Clients, pl \in RacePlans :
            BeginSubmit(p, op, u, "subscription", NoReport, pl)
    \/ \E p \in Procs : LookupPending(p)
    \/ \E p \in Procs : InsertRequest(p)
    \/ \E p \in Procs, id \in 1..Len(requests), st \in Decisions, c \in Comments :
            BeginVerify(p, id, st, c)
    \/ \E p \in Procs : SaveVerify(p)
    \/ \E p \in Procs : GrantVerify(p)
    \/ \E p \in Procs, id \in 1..Len(requests) : BeginApprove(p, id)
    \/ \E p \in Procs : LoadUserApprove(p)
    \/ \E p \in Procs : SaveApprove(p)
    \/ \E p \in Procs : GrantApprove(p)
    \/ \E p \in Procs : Return(p)

SpecRace == Init /\ [][NextRace]_vars

\* the requests that are pending for user u and report r / for a subscription of u
PendingFor(u, r) ==
    {i \in RequestIds : /\ requests[i].user = u
                        /\ requests[i].report = r
                        /\ requests[i].status = "pending"}

PendingSubscriptionsOf(u) ==
    {i \in RequestIds : /\ requests[i].user = u
                        /\ requests[i].paymentType = "subscription"
                        /\ requests[i].status = "pending"}

\* p is a review call that found request id pending and has answered
ReviewedPending(p, id) ==
    /\ calls[p].op \in {"verify", "approve"}
    /\ calls[p].id = id
    /\ calls[p].decision = "approved"
    /\ calls[p].doc.status = "pending"
    /\ calls[p].pc = "done"

\* C19: a request is never approved twice: of two concurrent approving calls
\* on the same pending PaymentRequest exactly one succeeds, and the grant
\* reaches the user once (one purchasedReports entry for the report).
C19_ApprovedOnce ==
    \A p, q \in Procs, id \in RequestIds :
        (p # q /\ ReviewedPending(p, id) /\ ReviewedPending(q, id))
            => /\ (calls[p].result = "OK") # (calls[q].result = "OK")
               /\ requests[id].paymentType = "report"
                    => CountEntries(users[requests[id].user], requests[id].report) <= 1

\* C20: in every reachable state, those between the duplicate check and the
\* insert of two concurrent submit or grant-access calls included, there is
\* at most one pending PaymentRequest per (user, report) and at most one
\* pending subscription PaymentRequest per user.
C20_OnePendingPerTarget ==
    \A u \in Users :
        /\ \A r \in PaidReports : Cardinality(PendingFor(u, r)) <= 1
        /\ Cardinality(PendingSubscriptionsOf(u)) <= 1

\* the user of request id holds what its approval grants
GrantHeld(id) ==
    LET usr == users[requests[id].user] IN
    IF requests[id].paymentType = "report"
    THEN \E i \in 1..Len(usr.purchasedReports) :
            /\ usr.purchasedReports[i].reportId = requests[id].report
            /\ usr.purchasedReports[i].accessType = "individual"
    ELSE HasSub(usr) /\ Cur(usr).planId = requests[id].subscriptionPlan.planId

\* C24: the approval-grant step can be applied again safely: for an approved
\* request whose grant the user already holds it adds no second
\* purchasedReports entry, does not activate the subscription again, resets no
\* Used counter and pushes nothing onto subscriptionHistory.
C24_GrantReappliedIsNoOp ==
    [][\A id \in RequestIds :
          (/\ requests[id].status = "approved"
           /\ GrantHeld(id)
           /\ \E c \in Comments : VerifyPaymentRequest(id, "approved", c))
              => users' = users]_vars

\* C26: reviewing a pending request with decision rejected stores status
\* rejected with the comment, the reviewer and the review timestamp, and
\* leaves the user's purchasedReports, currentSubscription, subscriptionHistory
\* and counters as they were.
C26_RejectionRecordsReview ==
    [][\A id \in RequestIds, c \in Comments :
          (requests[id].status = "pending" /\ VerifyPaymentRequest(id, "rejected", c))
              => /\ requests'[id].status = "rejected"
                 /\ requests'[id].adminComment = c
                 /\ requests'[id].reviewedAt = now
                 /\ requests'[id].reviewedBy # NoReviewer
                 /\ users' = users]_vars

\* s is t or t with elements added at its end
IsPrefix(s, t) ==
    Len(s) <= Len(t) /\ SubSeq(t, 1, Len(s)) = s

SubscriptionAccess(reportType) ==
    [hasAccess |-> TRUE, accessType |-> "subscription", reportType |-> reportType,
     reason |-> ""]

\* useReport's precondition fails for usr and reportType
CannotConsume(usr, reportType, t) ==
    \/ ~hasActiveSubscription(usr, t)
    \/ reportType = "premium" /\ Cur(usr).premiumReports - Cur(usr).premiumReportsUsed <= 0
    \/ reportType = "bluechip" /\ Cur(usr).bluechipReports - Cur(usr).bluechipReportsUsed <= 0

\* C28: useReport called without an active subscription, or with nothing left
\* in the bucket of the report's type, returns false and changes no counter
\* and no purchasedReports entry, and every caller then denies: the PDF and
\* download routes and use-subscription serve nothing and save nothing.
C28_FailedConsumeDenies ==
    /\ [](\A c \in Clients, r \in PaidReports :
            CannotConsume(users[c], ReportType(r), now)
                => /\ ~useReport(users[c], ReportType(r), now).ok
                   /\ useReport(users[c], ReportType(r), now).user = users[c]
                   /\ ~AlreadyAccessed(users[c], r)
                        => /\ ~ConsumeOnServe(users[c], r,
                                              SubscriptionAccess(ReportType(r)), now).served
                           /\ ConsumeOnServe(users[c], r,
                                             SubscriptionAccess(ReportType(r)), now).user
                                  = users[c]
                           /\ UseSubscriptionAnswer(c, r).code
                                  \in {"NO_SUBSCRIPTION", "NO_REPORTS_LEFT"}
                           /\ HasPurchased(users[c], r)
                                \/ /\ PdfAnswer(c, r).code # "SERVED"
                                   /\ DownloadAnswer(c, r).code # "SERVED")
    /\ [][\A c \in Clients, r \in PaidReports :
            (/\ CannotConsume(users[c], ReportType(r), now)
             /\ ~HasPurchased(users[c], r)
             /\ (UseSubscription(c, r) \/ GetPdf(c, r) \/ Download(c, r)))
                => users' = users]_vars

\* reached: an active subscription in use with nothing left in its premium
\* bucket, and a premium report the user does not hold
C28_Witness ==
    /\ hasActiveSubscription(users["u1"], now)
    /\ Cur(users["u1"]).reportsUsed > 0
    /\ Cur(users["u1"]).premiumReportsUsed = Cur(users["u1"]).premiumReports
    /\ \E r \in PaidReports :
          /\ ReportType(r) = "premium"
          /\ ~HasPurchased(users["u1"], r)
          /\ UseSubscriptionAnswer("u1", r).code = "NO_REPORTS_LEFT"

\* C29: an activation never replaces a subscription that is still active and
\* unexpired: whenever an approval installs a new currentSubscription,
\* hasActiveSubscription was false for the user just before.
C29_ActivationNeverReplacesActive ==
    [][\A id \in RequestIds :
          (requests[id].paymentType = "subscription" /\ GrantingApproval(id))
              => ~hasActiveSubscription(users[requests[id].user], now)]_vars

\* ======================================================================
\* Interleaved accesses: two invocations of the serving routes and of
\* use-subscription by one subscriber, each advancing from one await to the
\* next; requests are reviewed while they are pending
\* ======================================================================
\* the premium reports the concurrent accesses are about
AccessReports == {"rp1", "rp2"}

\* GET /:id/pdf and GET /:id/download run the same steps
ServeOps == {"pdf", "download"}

\* the target of an access call, kept in the call's doc
Target(c, r) == [NoDoc EXCEPT !.user = c, !.report = r]

\* what user.save() sends after useReport and the purchasedReports push on the
\* loaded document usr: the two counters useReport assigned, as the values
\* computed from usr, and the pushed entry; an update of a counter below a
\* currentSubscription that is null is refused
ChargeSave(db, usr, r, reportType) ==
    IF ~HasSub(db) THEN db
    ELSE LET charged == useReport(usr, reportType, now).user IN
         [db EXCEPT
            !.currentSubscription[1].reportsUsed = Cur(charged).reportsUsed,
            !.currentSubscription[1].premiumReportsUsed =
                IF reportType = "premium" THEN Cur(charged).premiumReportsUsed ELSE @,
            !.currentSubscription[1].bluechipReportsUsed =
                IF reportType = "bluechip" THEN Cur(charged).bluechipReportsUsed ELSE @,
            !.purchasedReports = Append(@, PurchaseEntry(r, 0, "subscription"))]

\* GET /:id/pdf, GET /:id/download: const access = await checkReportAccess(...)
BeginServe(p, op, c, r) ==
    /\ Idle(p)
    /\ UNCHANGED <<now, sweep, users, requests>>
    /\ LET access == checkReportAccess(users[c], r, ReportType(r), now) IN
       calls' = [calls EXCEPT ![p] =
           IF ~access.hasAccess
           THEN Call(op, "done", 0, "", "", Target(c, r), users[c], "ACCESS_DENIED")
           ELSE IF access.accessType = "subscription"
           THEN Call(op, "access", 0, access.reportType, "", Target(c, r), users[c], "")
           ELSE Call(op, "done", 0, "", "", Target(c, r), users[c], "SERVED")]

\* const user = await User.findById(...); alreadyAccessed; user.useReport(...);
\* user.purchasedReports.push(...)
LoadServe(p) ==
    /\ calls[p].op \in ServeOps
    /\ calls[p].pc = "access"
    /\ UNCHANGED <<now, sweep, users, requests>>
    /\ LET usr == users[calls[p].doc.user] IN
       calls' = [calls EXCEPT ![p] =
           IF AlreadyAccessed(usr, calls[p].doc.report)
           THEN [@ EXCEPT !.pc = "done", !.usr = usr, !.result = "SERVED"]
           ELSE IF ~useReport(usr, calls[p].decision, now).ok
           THEN [@ EXCEPT !.pc = "done", !.usr = usr, !.result = "NO_REPORTS_LEFT"]
           ELSE [@ EXCEPT !.pc = "charged", !.usr = usr]]

\* POST /:id/use-subscription: const user = await User.findById(...), the
\* checks, user.useReport(reportType) and the push, up to await user.save()
BeginUse(p, c, r) ==
    /\ Idle(p)
    /\ UNCHANGED <<now, sweep, users, requests>>
    /\ calls' = [calls EXCEPT ![p] =
           IF UseSubscriptionAnswer(c, r).code = "OK"
           THEN Call("use-subscription", "charged", 0, ReportType(r), "", Target(c, r),
                     users[c], "")
           ELSE Call("use-subscription", "done", 0, ReportType(r), "", Target(c, r),
                     users[c], UseSubscriptionAnswer(c, r).code)]

\* await user.save(), then the answer
SaveCharge(p) ==
    /\ calls[p].op \in ServeOps \cup {"use-subscription"}
    /\ calls[p].pc = "charged"
    /\ users' = [users EXCEPT ![calls[p].doc.user] =
                    ChargeSave(@, calls[p].usr, calls[p].doc.report, calls[p].decision)]
    /\ WithinBounds(users')
    /\ calls' = [calls EXCEPT ![p] =
           [@ EXCEPT !.pc = "done",
                     !.result = IF ~HasSub(users[calls[p].doc.user]) THEN "ERROR"
                                ELSE IF calls[p].op \in ServeOps THEN "SERVED" ELSE "OK"]]
    /\ UNCHANGED <<now, sweep, requests>>

NextAccess ==
    \/ \E u \in Clients, pl \in RacePlans :
            CreatePaymentRequest(u, "subscription", NoReport, pl)
    \/ \E id \in 1..Len(requests), c \in Comments :
            requests[id].status = "pending" /\ VerifyPaymentRequest(id, "approved", c)
    \/ \E p \in Procs, op \in ServeOps, c \in Clients, r \in AccessReports :
            BeginServe(p, op, c, r)
    \/ \E p \in Procs : LoadServe(p)
    \/ \E p \in Procs, c \in Clients, r \in AccessReports : BeginUse(p, c, r)
    \/ \E p \in Procs : SaveCharge(p)
    \/ \E p \in Procs : Return(p)

SpecAccess == Init /\ [][NextAccess]_vars

\* the purchasedReports entries of usr made through the subscription
SubscriptionEntries(usr) ==
    {i \in 1..Len(usr.purchasedReports) : usr.purchasedReports[i].accessType = "subscription"}

\* the reports of a type that usr unlocked through the subscription
Unlocked(usr, reportType) ==
    {usr.purchasedReports[i].reportId : i \in
        {j \in SubscriptionEntries(usr) :
            ReportType(usr.purchasedReports[j].reportId) = reportType}}

\* C21: two concurrent accesses by one user, under an active subscription, to
\* the same report not yet purchased leave, under every interleaving of their
\* load, check and save steps, one purchasedReports entry for the report and
\* one quota decrement.
C21_NoDoubleConsumption ==
    \A u \in Users :
        /\ \A r \in AccessReports : CountEntries(users[u], r) <= 1
        /\ HasSub(users[u])
              => Cur(users[u]).reportsUsed <= Cardinality(SubscriptionEntries(users[u]))

\* C30: within one subscription term the distinct reports of a type that a
\* user unlocks through the subscription are never more than the quota of that
\* type's bucket, concurrent accesses to different reports included.
C30_UnlockedWithinQuota ==
    \A u \in Users :
        HasSub(users[u])
            => /\ Cardinality(Unlocked(users[u], "premium")) <= Cur(users[u]).premiumReports
               /\ Cardinality(Unlocked(users[u], "bluechip")) <= Cur(users[u]).bluechipReports

\* ======================================================================
\* The expiry sweep step by step: the query, then one save per user found,
\* then the warning pass; approvals and the clock move in between
\* ======================================================================
\* the orders in which a query can return the documents of set S
Orderings(S) ==
    {q \in [1..Cardinality(S) -> S] : \A u \in S : \E i \in 1..Cardinality(S) : q[i] = u}

\* const users = await User.find({'currentSubscription.isActive': true,
\*                                'currentSubscription.expiryDate': {$lt: now}})
SweepFind ==
    /\ sweep.pc \in {"idle", "warned", "aborted"}
    /\ LET F == {u \in Users : ExpiredQuery(users[u], now)} IN
       \E q \in Orderings(F) :
          sweep' = [pc |-> "loop", queue |-> q,
                    loaded |-> [u \in Users |-> IF u \in F THEN users[u] ELSE NewUser],
                    found |-> F, saved |-> {}, failed |-> {}]
    /\ UNCHANGED <<now, users, requests, calls>>

\* what user.save() sends for a user of the loop: currentSubscription null and
\* the push of the loaded subscription, deactivated, onto subscriptionHistory
SweepSaveUser(db, usr) ==
    [db EXCEPT
        !.subscriptionHistory = Append(@, Deactivate(usr).subscriptionHistory[
                                              Len(Deactivate(usr).subscriptionHistory)]),
        !.currentSubscription = Deactivate(usr).currentSubscription]

\* one turn of the for loop: deactivate, archive, clear, await user.save()
SweepSave ==
    /\ sweep.pc = "loop"
    /\ sweep.queue # << >>
    /\ LET u == Head(sweep.queue) IN
       /\ users' = [users EXCEPT ![u] = SweepSaveUser(@, sweep.loaded[u])]
       /\ sweep' = [sweep EXCEPT !.queue = Tail(@), !.saved = @ \cup {u}]
    /\ UNCHANGED <<now, requests, calls>>

\* await user.save() throws: the callback's one try block ends in its catch,
\* which logs; the rest of the loop and the warning pass are not run
SweepSaveFails ==
    /\ sweep.pc = "loop"
    /\ sweep.queue # << >>
    /\ sweep' = [sweep EXCEPT !.pc = "aborted", !.queue = << >>,
                              !.failed = @ \cup {Head(sweep.queue)}]
    /\ UNCHANGED <<now, users, requests, calls>>

\* the loop is over: the warning pass (a query and mail, nothing saved)
SweepWarn ==
    /\ sweep.pc = "loop"
    /\ sweep.queue = << >>
    /\ sweep' = [sweep EXCEPT !.pc = "warned"]
    /\ UNCHANGED <<now, users, requests, calls>>

NextSweep ==
    \/ \E u \in Users, pl \in RacePlans :
            CreatePaymentRequest(u, "subscription", NoReport, pl)
    \/ \E id \in 1..Len(requests), c \in Comments :
            requests[id].status = "pending" /\ VerifyPaymentRequest(id, "approved", c)
    \/ Tick
    \/ SweepFind
    \/ SweepSave
    \/ SweepSaveFails
    \/ SweepWarn

SpecSweep == Init /\ [][NextSweep]_vars

\* C22: changes to one user's subscription are serialized, not last write
\* wins: when a running sweep that loaded the user with an expired
\* subscription saves after a new subscription was approved for that user,
\* the new, unexpired subscription is still the currentSubscription; the sweep
\* never clears a subscription whose expiryDate is later than now.
C22_SweepKeepsNewSubscription ==
    [][SweepSave
          => \A u \in Users :
                (HasSub(users[u]) /\ Cur(users[u]).expiryDate > now)
                    => users'[u].currentSubscription = users[u].currentSubscription]_vars

\* C25: a failure while processing one user does not abort the sweep: when a
\* run is over, every other user it found has been deactivated in that run and
\* the warning pass has run.
C25_SweepSurvivesUserFailure ==
    sweep.pc \in {"warned", "aborted"}
        => /\ sweep.pc = "warned"
           /\ (sweep.found \ sweep.failed) \subseteq sweep.saved

\* ======================================================================
\* Crashes: the review handlers step by step, and the process dying with
\* invocations in flight
\* ======================================================================
\* the process dies and is started again: what the invocations in flight had
\* loaded is lost, the collections are as the last completed save left them
Crash ==
    /\ \E p \in Procs : ~Idle(p)
    /\ calls' = [p \in Procs |-> NoCall]
    /\ UNCHANGED <<now, sweep, users, requests>>

\* pending requests are reviewed: report requests through the verify route,
\* subscription requests through either route
NextCrash ==
    \/ \E u \in Clients, r \in RaceReports : CreatePaymentRequest(u, "report", r, NoPlan)
    \/ \E u \in Clients, pl \in RacePlans :
            CreatePaymentRequest(u, "subscription", NoReport, pl)
    \/ \E p \in Procs, id \in 1..Len(requests), st \in Decisions, c \in Comments :
            requests[id].status = "pending" /\ BeginVerify(p, id, st, c)
    \/ \E p \in Procs : SaveVerify(p)
    \/ \E p \in Procs : GrantVerify(p)
    \/ \E p \in Procs, id \in 1..Len(requests) :
            /\ requests[id].status = "pending"
            /\ requests[id].paymentType = "subscription"
            /\ BeginApprove(p, id)
    \/ \E p \in Procs : LoadUserApprove(p)
    \/ \E p \in Procs : SaveApprove(p)
    \/ \E p \in Procs : GrantApprove(p)
    \/ \E p \in Procs : Return(p)
    \/ Crash

SpecCrash == Init /\ [][NextCrash]_vars

\* a handler that has started runs on, from one await to the next, for as
\* long as the process lives
HandlersRunOn ==
    \A p \in Procs :
        /\ WF_vars(SaveVerify(p))
        /\ WF_vars(GrantVerify(p))
        /\ WF_vars(LoadUserApprove(p))
        /\ WF_vars(SaveApprove(p))
        /\ WF_vars(GrantApprove(p))
        /\ WF_vars(Return(p))

FairSpecCrash == SpecCrash /\ HandlersRunOn

\* C23: the transition to approved and the user's grant are applied together:
\* when the process crashes between the two writes, the approved request
\* that was not granted is detected and reconciled, so that every approved
\* request's entitlement is eventually held by its user.
C23_ApprovedIsEventuallyGranted ==
    \A id \in 1..MaxRequests :
        (id \in RequestIds /\ requests[id].status = "approved")
            ~> (id \in RequestIds /\ GrantHeld(id))

====
